---- MODULE Spec2Model ----
(***************************************************************************)
(* Content source adapter of the documentation site: configuration         *)
(* validation (util/env), the mode dispatcher getFiles, local acquisition  *)
(* getLocalFiles and remote acquisition getGitHubFiles (app/source.ts).    *)
(*                                                                         *)
(* Representation.  A JavaScript string is a sequence of tokens (each      *)
(* token a piece of the string, "/" and "." always tokens of their own),   *)
(* so that prefix tests, extension extraction and path arithmetic are      *)
(* computed and not assumed.  An optional value (undefined / null / NaN)   *)
(* is a sequence of length 0 or 1.                                         *)
(***************************************************************************)
EXTENDS Integers, Sequences, FiniteSets, TLC

VARIABLES processEnv, env, pc, log, net, response, data, tasks, settled,
          files, error

vars == <<processEnv, env, pc, log, net, response, data, tasks, settled,
          files, error>>

\* processEnv  process.env as read by validateEnv
\* env         the exported env of util/env, NULL until validated
\* pc          where module initialisation of app/source.ts stands
\* log         the console lines written so far
\* net         the requests sent and the listing response received so far
\* response    the listing response while getGitHubFiles still holds it
\* data        the listing read by response.json() (remote), or the entries
\*             of import.meta.glob (local)
\* tasks       the promises of contentFiles.map
\* settled     the indexes of tasks in the order they settled
\* files       the list returned to getFiles, NULL before the return
\* error       the error thrown, NULL when none

\* ---------------------------------------------------------------- bounds
MaxTree == 2
MaxLocal == 2

\* ------------------------------------------------------- optional values
NULL == <<>>
Some(v) == <<v>>
IsNull(o) == Len(o) = 0

\* variant: only undefined counts, "" passes
FalsyUndefinedOnly(o) == Len(o) = 0

\* JavaScript falsiness of an optional string: undefined/null or "".
Falsy(o) == Len(o) = 0 \/ Len(o[1]) = 0

\* ------------------------------------------------------- string helpers
\* String.prototype.startsWith
StartsWith(s, prefix) ==
    /\ Len(s) >= Len(prefix)
    /\ SubSeq(s, 1, Len(prefix)) = prefix

\* Index of the last occurrence of token t in s, 0 when there is none.
LastIndexOf(s, t) ==
    LET I == {i \in 1..Len(s) : s[i] = t}
    IN IF I = {} THEN 0 ELSE CHOOSE i \in I : \A j \in I : j <= i

\* path.extname: from the last "." of the last path segment to the end;
\* empty when there is no "." or the segment starts with it.
ExtName(p) ==
    LET slash == LastIndexOf(p, "/")
        base == SubSeq(p, slash + 1, Len(p))
        dot == LastIndexOf(base, ".")
    IN IF dot <= 1 THEN <<>> ELSE SubSeq(base, dot, Len(base))

\* The segments of a path: the maximal runs of tokens between "/" tokens.
RECURSIVE Segments(_)
Segments(p) ==
    IF Len(p) = 0 THEN <<>>
    ELSE IF p[1] = "/" THEN Segments(Tail(p))
    ELSE LET J == {j \in 1..Len(p) : p[j] = "/"}
             cut == IF J = {} THEN Len(p) + 1
                    ELSE CHOOSE j \in J : \A k \in J : j <= k
         IN <<SubSeq(p, 1, cut - 1)>> \o Segments(SubSeq(p, cut, Len(p)))

RECURSIVE JoinSegments(_)
JoinSegments(segs) ==
    IF Len(segs) = 0 THEN <<>>
    ELSE IF Len(segs) = 1 THEN segs[1]
    ELSE segs[1] \o <<"/">> \o JoinSegments(Tail(segs))

\* process.cwd()
Cwd == <<"/", "srv", "/", "site">>

\* path.resolve of one path against the working directory
Resolve(p) == IF Len(p) > 0 /\ p[1] = "/" THEN p ELSE Cwd \o <<"/">> \o p

\* path.join(a, b): concatenation with "/", repeated separators collapsed
PathJoin(a, b) == <<"/">> \o JoinSegments(Segments(a) \o Segments(b))

RECURSIVE CommonLen(_, _)
CommonLen(a, b) ==
    IF Len(a) = 0 \/ Len(b) = 0 THEN 0
    ELSE IF a[1] = b[1] THEN 1 + CommonLen(Tail(a), Tail(b)) ELSE 0

\* path.relative(from, to)
PathRelative(from, to) ==
    LET f == Segments(Resolve(from))
        t == Segments(Resolve(to))
        n == CommonLen(f, t)
        ups == [i \in 1..(Len(f) - n) |-> <<"..">>]
    IN JoinSegments(ups \o SubSeq(t, n + 1, Len(t)))

\* ------------------------------------------------------------- parseInt
DigitChars == {"0", "1", "2", "3", "4", "5", "6", "7", "8", "9"}
DigitVal(c) ==
    CASE c = "0" -> 0 [] c = "1" -> 1 [] c = "2" -> 2 [] c = "3" -> 3
      [] c = "4" -> 4 [] c = "5" -> 5 [] c = "6" -> 6 [] c = "7" -> 7
      [] c = "8" -> 8 [] c = "9" -> 9

RECURSIVE ParseDigits(_, _)
ParseDigits(s, acc) ==
    IF Len(s) = 0 \/ s[1] \notin DigitChars THEN acc
    ELSE ParseDigits(Tail(s), 10 * acc + DigitVal(s[1]))

\* parseInt(s): the value of the longest prefix of decimal digits, NaN
\* (NULL) when the string does not start with a digit.  Here a string is
\* a sequence of characters.
ParseInt(s) ==
    IF Len(s) = 0 \/ s[1] \notin DigitChars THEN NULL
    ELSE Some(ParseDigits(s, 0))

\* ------------------------------------------------- configuration (env)
DefaultContentPath == <<"content", "/", "docs">>
DefaultBranch == <<"main">>

NodeEnvs == {NULL, Some(<<"development">>), Some(<<"production">>)}
OptNames == {NULL, Some(<<>>), Some(<<"acme">>)}
OptContentPaths == {NULL, Some(<<>>)}
\* the token is left unset: requests go out unauthenticated
OptTokens == {NULL}

\* process.env as the schema sees it
ProcessEnvs ==
    [NODE_ENV : NodeEnvs, GITHUB_OWNER : OptNames, GITHUB_REPO : OptNames,
     GITHUB_CONTENT_PATH : OptContentPaths, GITHUB_TOKEN : OptTokens]

\* z.object({...}): the enum, the optional strings and the two defaults
BaseValid(e) == ~IsNull(e.NODE_ENV)

BaseData(e) ==
    [NODE_ENV |-> e.NODE_ENV[1],
     GITHUB_OWNER |-> e.GITHUB_OWNER,
     GITHUB_REPO |-> e.GITHUB_REPO,
     GITHUB_CONTENT_PATH |->
        IF IsNull(e.GITHUB_CONTENT_PATH) THEN DefaultContentPath
        ELSE e.GITHUB_CONTENT_PATH[1],
     GITHUB_CONTENT_BRANCH |-> DefaultBranch,
     GITHUB_TOKEN |-> e.GITHUB_TOKEN]

IsProduction(d) == d.NODE_ENV = <<"production">>

\* superRefine: the issues added, in order
RefineIssues(d) ==
    IF ~IsProduction(d) THEN <<>>
    ELSE (IF Falsy(d.GITHUB_OWNER)
            THEN <<"GITHUB_OWNER is required in production mode.">> ELSE <<>>)
      \o (IF Falsy(d.GITHUB_REPO)
            THEN <<"GITHUB_REPO is required in production mode.">> ELSE <<>>)
      \o (IF Len(d.GITHUB_CONTENT_PATH) = 0
            THEN <<"GITHUB_CONTENT_PATH is required in production mode.">>
            ELSE <<>>)

\* envSchema.safeParse: every violated constraint, or none
EnvIssues(e) ==
    IF ~BaseValid(e) THEN <<"NODE_ENV: invalid enum value">>
    ELSE RefineIssues(BaseData(e))

\* the console.warn of superRefine
TokenWarning(e) ==
    IF BaseValid(e) /\ IsProduction(BaseData(e)) /\ Falsy(e.GITHUB_TOKEN)
    THEN <<[fn |-> "validateEnv", level |-> "warn",
            msg |-> "GITHUB_TOKEN is not set", arg |-> <<>>]>>
    ELSE <<>>

\* ------------------------------------------------------------- errors
\* An error's message is a sequence of lines.
NewError(message) ==
    [name |-> "Error", message |-> message,
     statusCode |-> NULL, rateLimitInfo |-> NULL]

GitHubApiError(message, statusCode) ==
    [name |-> "GitHubApiError", message |-> message,
     statusCode |-> Some(statusCode), rateLimitInfo |-> NULL]

GitHubRateLimitError(message, rateLimitInfo) ==
    [name |-> "GitHubRateLimitError", message |-> message,
     statusCode |-> Some(403), rateLimitInfo |-> Some(rateLimitInfo)]

\* thrown by matter or JSON.parse
ParseError ==
    [name |-> "SyntaxError", message |-> <<"parse error">>,
     statusCode |-> NULL, rateLimitInfo |-> NULL]

\* fetch rejects: no response
FetchFailed ==
    [name |-> "TypeError", message |-> <<"fetch failed">>,
     statusCode |-> NULL, rateLimitInfo |-> NULL]

\* response.json() rejects
JsonSyntaxError ==
    [name |-> "SyntaxError", message |-> <<"Unexpected token">>,
     statusCode |-> NULL, rateLimitInfo |-> NULL]

\* the rejection of an awaited batch of promises
BatchRejected ==
    [name |-> "BatchRejected", message |-> <<"a task rejected">>,
     statusCode |-> NULL, rateLimitInfo |-> NULL]

\* ----------------------------------------------------- file contents
\* A file's text is a sequence of lines.
C_frontmatter == <<"---", "title: A", "---", "hello">>
C_badyaml == <<"---", "title: [", "---", "hello">>
C_json == <<"{\"pages\":[\"a\",\"b\"]}">>
Contents == {C_frontmatter, C_badyaml, C_json}

\* YAML: one "key: value" mapping entry per line; "title: [" opens a flow
\* sequence that is never closed, which the YAML parser rejects.
YamlValid(line) == line = "title: A"
YamlKey(line) == "title"
YamlValue(line) == "A"

\* matter(content) of gray-matter: a leading "---" line opens a YAML block
\* that runs to the next "---" line (or to the end); the rest is the body.
\* threw: the YAML block is malformed.
Matter(content) ==
    IF Len(content) = 0 \/ content[1] # "---"
    THEN [threw |-> FALSE, data |-> <<>>, content |-> content]
    ELSE LET J == {j \in 2..Len(content) : content[j] = "---"}
             close == IF J = {} THEN Len(content) + 1
                      ELSE CHOOSE j \in J : \A k \in J : j <= k
             yaml == SubSeq(content, 2, close - 1)
             body == SubSeq(content, close + 1, Len(content))
         IN IF \E i \in 1..Len(yaml) : ~YamlValid(yaml[i])
            THEN [threw |-> TRUE, data |-> <<>>, content |-> <<>>]
            ELSE [threw |-> FALSE,
                  data |-> [k \in {YamlKey(yaml[i]) : i \in 1..Len(yaml)} |->
                              YamlValue(CHOOSE l \in {yaml[i] : i \in 1..Len(yaml)} :
                                           YamlKey(l) = k)],
                  content |-> body]

\* JSON.parse(content): a structured value, or a SyntaxError
JsonParse(content) ==
    IF content = C_json
    THEN [threw |-> FALSE, value |-> [pages |-> <<"a", "b">>]]
    ELSE [threw |-> TRUE, value |-> <<>>]

\* { ...parsed.data, content: parsed.content }
PageData(parsed) ==
    [k \in (DOMAIN parsed.data) \cup {"content"} |->
        IF k = "content" THEN parsed.content ELSE parsed.data[k]]

EXT_MD == <<".", "md">>
EXT_MDX == <<".", "mdx">>
EXT_JSON == <<".", "json">>

VirtualFile(type, path, d) == [type |-> type, path |-> path, data |-> d]

\* The outcome of handling one file: it threw, or it yields at most one
\* virtual file.
Threw == [threw |-> TRUE, file |-> NULL]
Yields(optFile) == [threw |-> FALSE, file |-> optFile]

\* getLocalFiles, the flatMap callback for one [file, content] entry
LocalEntry(file, content) ==
    LET ext == ExtName(file)
        virtualPath == PathRelative(DefaultContentPath, PathJoin(Cwd, file))
    IN IF ext = EXT_MDX \/ ext = EXT_MD
       THEN LET parsed == Matter(content)
            IN IF parsed.threw THEN Threw
               ELSE Yields(Some(VirtualFile("page", virtualPath, PageData(parsed))))
       ELSE IF ext = EXT_JSON
       THEN LET json == JsonParse(content)
            IN IF json.threw THEN Threw
               ELSE Yields(Some(VirtualFile("meta", virtualPath, json.value)))
       ELSE Yields(NULL)

\* variant: .md is not recognized
RemoteEntryMdxOnly(contentPath, filePath, content) ==
    LET ext == ExtName(filePath)
        virtualPath == PathRelative(contentPath, filePath)
    IN IF ext = EXT_MDX
       THEN LET parsed == Matter(content)
            IN IF parsed.threw THEN Threw
               ELSE Yields(Some(VirtualFile("page", virtualPath, PageData(parsed))))
       ELSE IF ext = EXT_JSON
       THEN LET json == JsonParse(content)
            IN IF json.threw THEN Threw
               ELSE Yields(Some(VirtualFile("meta", virtualPath, json.value)))
       ELSE Yields(NULL)

\* getGitHubFiles, the map callback after fileResponse.text() resolved
RemoteEntry(contentPath, filePath, content) ==
    LET ext == ExtName(filePath)
        virtualPath == PathRelative(contentPath, filePath)
    IN IF ext = EXT_MDX \/ ext = EXT_MD
       THEN LET parsed == Matter(content)
            IN IF parsed.threw THEN Threw
               ELSE Yields(Some(VirtualFile("page", virtualPath, PageData(parsed))))
       ELSE IF ext = EXT_JSON
       THEN LET json == JsonParse(content)
            IN IF json.threw THEN Threw
               ELSE Yields(Some(VirtualFile("meta", virtualPath, json.value)))
       ELSE Yields(NULL)

\* ------------------------------------------------- rate-limit headers
RemainingValues == {NULL, Some(<<>>), Some(<<"0">>), Some(<<"5">>), Some(<<"a">>)}
OtherValues == {NULL, Some(<<"6", "0">>)}

\* response.headers: what headers.get returns for the four fields
HeaderSets ==
    [limit : OtherValues, remaining : RemainingValues,
     reset : OtherValues, used : OtherValues]

Statuses == {200, 403, 404}

\* variant: every status taken for a success
IsOkAlways(status) == TRUE

\* Response.ok
IsOk(status) == status \in 200..299

\* new Date(parseInt(reset) * 1000): an invalid date for NaN
DateOfSeconds(n) == IF IsNull(n) THEN NULL ELSE Some(n[1] * 1000)

\* variant: x-ratelimit-used is not required
ParseRateLimitHeadersIgnoringUsed(headers) ==
    IF Falsy(headers.limit) \/ Falsy(headers.remaining) \/ Falsy(headers.reset)
    THEN NULL
    ELSE Some([limit |-> ParseInt(headers.limit[1]),
               remaining |-> ParseInt(headers.remaining[1]),
               reset |-> DateOfSeconds(ParseInt(headers.reset[1])),
               used |-> IF IsNull(headers.used) THEN NULL
                        ELSE ParseInt(headers.used[1])])

\* parseRateLimitHeaders: no snapshot unless all four fields are non-empty
ParseRateLimitHeaders(headers) ==
    IF Falsy(headers.limit) \/ Falsy(headers.remaining)
       \/ Falsy(headers.reset) \/ Falsy(headers.used)
    THEN NULL
    ELSE Some([limit |-> ParseInt(headers.limit[1]),
               remaining |-> ParseInt(headers.remaining[1]),
               reset |-> DateOfSeconds(ParseInt(headers.reset[1])),
               used |-> ParseInt(headers.used[1])])

\* one console line: the text and what is interpolated into it
LogEntry(fn, level, msg, arg) ==
    [fn |-> fn, level |-> level, msg |-> msg, arg |-> arg]

MSG_NO_INFO == "No rate limit information available"
MSG_INFO == "GitHub API Rate Limit Info"

\* logRateLimitInfo: the line written; neither branch can throw
LogRateLimitInfo(rateLimitInfo) ==
    IF IsNull(rateLimitInfo)
    THEN <<LogEntry("logRateLimitInfo", "log", MSG_NO_INFO, <<>>)>>
    ELSE <<LogEntry("logRateLimitInfo", "log", MSG_INFO, <<>>)>>

\* getGitHubHeaders: Authorization only with a token
GetGitHubHeaders(e) ==
    [Accept |-> "application/vnd.github.v3+json",
     Authorization |-> IF Falsy(e.GITHUB_TOKEN) THEN NULL ELSE e.GITHUB_TOKEN]

\* variant: the status 403, not the remaining count, selects the rate-limit
\* error
ListingErrorOn403(status, rateLimitInfo) ==
    IF ~IsNull(rateLimitInfo) /\ status = 403
    THEN GitHubRateLimitError(<<"GitHub API rate limit exceeded">>, rateLimitInfo[1])
    ELSE GitHubApiError(<<"GitHub API error">>, status)

\* the error thrown for a listing response that is not ok
ListingError(status, rateLimitInfo) ==
    IF ~IsNull(rateLimitInfo) /\ rateLimitInfo[1].remaining = Some(0)
    THEN GitHubRateLimitError(<<"GitHub API rate limit exceeded">>, rateLimitInfo[1])
    ELSE GitHubApiError(<<"GitHub API error">>, status)

\* ------------------------------------------------------ tree listing
P_md == <<"content", "/", "docs", "/", "a", ".", "md">>
P_mdx == <<"content", "/", "docs", "/", "guide", "/", "b", ".", "mdx">>
P_json == <<"content", "/", "docs", "/", "meta", ".", "json">>
P_png == <<"content", "/", "docs", "/", "i", ".", "png">>
P_dir == <<"content", "/", "docs", "/", "guide">>
P_sibling == <<"content", "/", "docs", "-old", "/", "a", ".", "md">>
P_readme == <<"README", ".", "md">>

UnderPaths == {P_md, P_mdx, P_json, P_png}

TreeItem(path, type) == [path |-> path, type |-> type]

TreeItems ==
    {TreeItem(p, "blob") : p \in UnderPaths \cup {P_sibling, P_readme}}
    \cup {TreeItem(P_dir, "tree")}

SeqsUpTo(S, n) == UNION {[1..k -> S] : k \in 0..n}

Trees == SeqsUpTo(TreeItems, MaxTree)

\* data.tree.filter(item => item.type === 'blob' && item.path.startsWith(...))
ContentFiles(tree, contentPath) ==
    LET Keep(item) == item.type = "blob" /\ StartsWith(item.path, contentPath)
    IN SelectSeq(tree, Keep)

\* ------------------------------------------------------ network trace
\* Every request issued and the listing response received, in order.
TreeRequest(e) ==
    [ev |-> "request", kind |-> "tree", owner |-> e.GITHUB_OWNER[1],
     repo |-> e.GITHUB_REPO[1], ref |-> e.GITHUB_CONTENT_BRANCH,
     path |-> <<>>, headers |-> GetGitHubHeaders(e), status |-> 0]

FileRequest(e, filePath) ==
    [ev |-> "request", kind |-> "file", owner |-> e.GITHUB_OWNER[1],
     repo |-> e.GITHUB_REPO[1], ref |-> e.GITHUB_CONTENT_BRANCH,
     path |-> filePath, headers |-> GetGitHubHeaders(e), status |-> 0]

ResponseEvent(req, status) == [req EXCEPT !.ev = "response", !.status = status]

\* ------------------------------------------------------ per-file tasks
\* One promise of contentFiles.map: fetching until it is fulfilled (with a
\* virtual file or with null) or rejected.  fetch and content record what
\* the network gave for the file.
NewTask(filePath) ==
    [path |-> filePath, st |-> "fetching", fetch |-> "pending",
     content |-> NULL, value |-> NULL]

IsSettled(t) == t.st \in {"fulfilled", "rejected"}

\* variant: Promise.all, which rejects as soon as one promise rejects
PromiseAll(ts, order) ==
    [ready |-> (\A i \in 1..Len(ts) : ts[i].st = "fulfilled")
               \/ (\E i \in 1..Len(ts) : ts[i].st = "rejected"),
     rejected |-> \E i \in 1..Len(ts) : ts[i].st = "rejected",
     results |-> ts]

\* variant: the results collected in the order the promises settle
PromiseAllSettledInSettlementOrder(ts, order) ==
    [ready |-> \A i \in 1..Len(ts) : IsSettled(ts[i]),
     rejected |-> FALSE,
     results |-> [k \in 1..Len(order) |-> ts[order[k]]]]

\* Promise.allSettled: ready when every promise has settled, never rejects,
\* one result per promise in the order of the input array (order, the
\* indexes of the promises in the order they settled, plays no part).
PromiseAllSettled(ts, order) ==
    [ready |-> \A i \in 1..Len(ts) : IsSettled(ts[i]),
     rejected |-> FALSE,
     results |-> ts]

\* variant: without the final filter(Boolean)
VirtualFilesOfKeepingNull(results) ==
    LET Kept(r) == r.st = "fulfilled"
        kept == SelectSeq(results, Kept)
    IN [i \in 1..Len(kept) |-> kept[i].value]

\* results.filter(fulfilled).map(value).filter(Boolean)
VirtualFilesOf(results) ==
    LET Kept(r) == r.st = "fulfilled" /\ ~IsNull(r.value)
        kept == SelectSeq(results, Kept)
    IN [i \in 1..Len(kept) |-> kept[i].value[1]]

\* ------------------------------------------------------- local files
LocalKey(p) == <<"/">> \o p
LocalEntries == {<<LocalKey(p), c>> : p \in UnderPaths, c \in Contents}
LocalGlobs == SeqsUpTo(LocalEntries, MaxLocal)

\* files.flatMap(...): the first entry that throws aborts the whole call
LocalFlatMap(entries) ==
    LET outs == [i \in 1..Len(entries) |-> LocalEntry(entries[i][1], entries[i][2])]
        Kept(o) == ~IsNull(o.file)
        kept == SelectSeq(outs, Kept)
    IN IF \E i \in 1..Len(outs) : outs[i].threw
       THEN [threw |-> TRUE, files |-> <<>>]
       ELSE [threw |-> FALSE, files |-> [i \in 1..Len(kept) |-> kept[i].file[1]]]

\* ============================================================ actions
Init ==
    /\ processEnv \in ProcessEnvs
    /\ env = NULL
    /\ pc = "validateEnv"
    /\ log = <<>>
    /\ net = <<>>
    /\ response = NULL
    /\ data = NULL
    /\ tasks = <<>>
    /\ settled = <<>>
    /\ files = NULL
    /\ error = NULL

\* validateEnv (module initialisation of util/env)
ValidateEnv ==
    /\ pc = "validateEnv"
    /\ LET issues == EnvIssues(processEnv)
       IN IF Len(issues) > 0
          THEN /\ log' = log \o TokenWarning(processEnv)
                         \o <<[fn |-> "validateEnv", level |-> "error",
                              msg |-> "validation", arg |-> issues]>>
               /\ error' = Some(NewError(issues))
               /\ pc' = "failed"
               /\ env' = env
          ELSE /\ log' = log \o TokenWarning(processEnv)
               /\ env' = Some(BaseData(processEnv))
               /\ pc' = "getFiles"
               /\ error' = error
    /\ UNCHANGED <<processEnv, net, response, data, tasks, settled, files>>

\* getFiles: the mode decision
GetFiles ==
    /\ pc = "getFiles"
    /\ pc' = IF env[1].NODE_ENV = <<"development">>
             THEN "getLocalFiles" ELSE "getGitHubFiles"
    /\ UNCHANGED <<processEnv, env, log, net, response, data, tasks, settled,
                   files, error>>

\* getLocalFiles: synchronous, no network
GetLocalFiles ==
    /\ pc = "getLocalFiles"
    /\ \E entries \in LocalGlobs :
          LET out == LocalFlatMap(entries)
          IN /\ data' = Some(entries)
             /\ IF out.threw
                THEN /\ error' = Some(ParseError)
                     /\ pc' = "failed"
                     /\ files' = files
                ELSE /\ files' = Some(out.files)
                     /\ pc' = "returned"
                     /\ error' = error
    /\ UNCHANGED <<processEnv, env, log, net, response, tasks, settled>>

\* getGitHubFiles up to its first await: the configuration guard, then the
\* tree-listing request
GetGitHubFiles ==
    /\ pc = "getGitHubFiles"
    /\ IF Falsy(env[1].GITHUB_OWNER) \/ Falsy(env[1].GITHUB_REPO)
       THEN /\ error' = Some(NewError(<<"GitHub configuration is missing">>))
            /\ pc' = "failed"
            /\ net' = net
       ELSE /\ net' = Append(net, TreeRequest(env[1]))
            /\ pc' = "awaitTree"
            /\ error' = error
    /\ UNCHANGED <<processEnv, env, log, response, data, tasks, settled, files>>

\* await fetch(apiUrl) rejects (no response at all)
TreeFetchRejects ==
    /\ pc = "awaitTree"
    /\ error' = Some(FetchFailed)
    /\ pc' = "catch"
    /\ UNCHANGED <<processEnv, env, log, net, response, data, tasks, settled,
                   files>>

\* await fetch(apiUrl) resolves: the headers are parsed and logged, then the
\* status decides between the two errors and reading the body
TreeFetchResponds ==
    /\ pc = "awaitTree"
    /\ \E status \in Statuses, headers \in HeaderSets :
          LET rateLimitInfo == ParseRateLimitHeaders(headers)
          IN /\ response' = Some([status |-> status, headers |-> headers])
             /\ net' = Append(net, ResponseEvent(TreeRequest(env[1]), status))
             /\ log' = log \o LogRateLimitInfo(rateLimitInfo)
             /\ IF ~IsOk(status)
                THEN /\ error' = Some(ListingError(status, rateLimitInfo))
                     /\ pc' = "catch"
                ELSE /\ error' = error
                     /\ pc' = "awaitJson"
    /\ UNCHANGED <<processEnv, env, data, tasks, settled, files>>

\* await response.json() settles; on success the tree is filtered and every
\* per-file fetch is issued, in listing order, before anything else runs
TreeJsonSettles ==
    /\ pc = "awaitJson"
    /\ \E body \in {NULL} \cup {Some(t) : t \in Trees} :
          IF IsNull(body)
          THEN /\ error' = Some(JsonSyntaxError)
               /\ pc' = "catch"
               /\ UNCHANGED <<data, tasks, net, response>>
          ELSE LET contentFiles ==
                       ContentFiles(body[1], env[1].GITHUB_CONTENT_PATH)
               IN /\ data' = body
                  /\ tasks' = [i \in 1..Len(contentFiles) |->
                                  NewTask(contentFiles[i].path)]
                  /\ net' = net \o [i \in 1..Len(contentFiles) |->
                                       FileRequest(env[1], contentFiles[i].path)]
                  /\ response' = NULL
                  /\ pc' = "awaitAll"
                  /\ error' = error
    /\ UNCHANGED <<processEnv, env, log, settled, files>>

MSG_FAILED_FETCH == "Failed to fetch file"

FileOutcomes ==
    {[fetch |-> "rejected", content |-> NULL],
     [fetch |-> "notok", content |-> NULL]}
    \cup {[fetch |-> "ok", content |-> Some(c)] : c \in Contents}

\* one task runs to its end: fetch(fileUrl) rejects, or resolves with a
\* status that is not ok (logged, null), or resolves ok and the text is
\* classified
TaskSettles(i) ==
    /\ pc = "awaitAll"
    /\ i \in 1..Len(tasks)
    /\ tasks[i].st = "fetching"
    /\ \E o \in FileOutcomes :
          LET out == IF o.fetch = "rejected" THEN Threw
                     ELSE IF o.fetch = "notok" THEN Yields(NULL)
                     ELSE RemoteEntry(env[1].GITHUB_CONTENT_PATH,
                                      tasks[i].path, o.content[1])
          IN /\ tasks' = [tasks EXCEPT
                            ![i].fetch = o.fetch,
                            ![i].content = o.content,
                            ![i].st = IF out.threw THEN "rejected" ELSE "fulfilled",
                            ![i].value = out.file]
             /\ log' = IF o.fetch = "notok"
                       THEN Append(log, LogEntry("getGitHubFiles", "error",
                                       MSG_FAILED_FETCH, tasks[i].path))
                       ELSE log
    /\ settled' = Append(settled, i)
    /\ UNCHANGED <<processEnv, env, pc, net, response, data, files, error>>

\* await Promise.allSettled(...) resolves; the fulfilled non-null values are
\* returned
AllSettled ==
    /\ pc = "awaitAll"
    /\ LET batch == PromiseAllSettled(tasks, settled)
       IN /\ batch.ready
          /\ IF batch.rejected
             THEN /\ error' = Some(BatchRejected)
                  /\ pc' = "catch"
                  /\ files' = files
             ELSE /\ files' = Some(VirtualFilesOf(batch.results))
                  /\ pc' = "returned"
                  /\ error' = error
    /\ UNCHANGED <<processEnv, env, log, net, response, data, tasks, settled>>

MSG_RATE_LIMIT == "Rate limit exceeded. Reset at"
MSG_API_ERROR == "GitHub API error"
MSG_OTHER == "Error fetching files from GitHub:"

\* the catch block of getGitHubFiles: one line by error class, then rethrow
Catch ==
    /\ pc = "catch"
    /\ log' = Append(log,
          LogEntry("getGitHubFiles", "error",
             IF error[1].name = "GitHubRateLimitError" THEN MSG_RATE_LIMIT
             ELSE IF error[1].name = "GitHubApiError" THEN MSG_API_ERROR
             ELSE MSG_OTHER,
             error[1]))
    /\ pc' = "failed"
    /\ UNCHANGED <<processEnv, env, net, response, data, tasks, settled, files,
                   error>>

\* getFiles after its await: the count of loaded files
GetFilesLoaded ==
    /\ pc = "returned"
    /\ log' = Append(log, LogEntry("getFiles", "info", "Loaded files",
                                   <<env[1].NODE_ENV, Len(files[1])>>))
    /\ pc' = "loaded"
    /\ UNCHANGED <<processEnv, env, net, response, data, tasks, settled, files,
                   error>>

Next ==
    \/ ValidateEnv
    \/ GetFiles
    \/ GetLocalFiles
    \/ GetGitHubFiles
    \/ TreeFetchRejects
    \/ TreeFetchResponds
    \/ TreeJsonSettles
    \/ \E i \in 1..MaxTree : TaskSettles(i)
    \/ AllSettled
    \/ Catch
    \/ GetFilesLoaded

Spec == Init /\ [][Next]_vars

\* getGitHubFiles on its own, called with every value the declared type of
\* env allows (owner and repository are optional in it)
InitGitHub ==
    /\ processEnv \in {e \in ProcessEnvs :
          BaseValid(e) /\ IsProduction(BaseData(e))
          /\ IsNull(e.GITHUB_CONTENT_PATH)}
    /\ env = Some(BaseData(processEnv))
    /\ pc = "getGitHubFiles"
    /\ log = <<>>
    /\ net = <<>>
    /\ response = NULL
    /\ data = NULL
    /\ tasks = <<>>
    /\ settled = <<>>
    /\ files = NULL
    /\ error = NULL

NextGitHub ==
    \/ GetGitHubFiles
    \/ TreeFetchRejects
    \/ TreeFetchResponds
    \/ TreeJsonSettles
    \/ \E i \in 1..MaxTree : TaskSettles(i)
    \/ AllSettled
    \/ Catch

SpecGitHub == InitGitHub /\ [][NextGitHub]_vars

\* ============================================================ properties
Production == <<"production">>
Development == <<"development">>

\* A path lies under a directory when the directory is followed by a
\* separator in it.
IsUnder(s, prefix) ==
    /\ Len(s) > Len(prefix)
    /\ SubSeq(s, 1, Len(prefix)) = prefix
    /\ s[Len(prefix) + 1] = "/"

\* "missing (undefined or empty)"
Missing(o) == o = NULL \/ o = Some(<<>>)

IsFileRequest(m) == m.ev = "request" /\ m.kind = "file"
IsTreeResponse(m) == m.ev = "response" /\ m.kind = "tree"
FileRequests == SelectSeq(net, IsFileRequest)

Remote == ~IsNull(env) /\ env[1].NODE_ENV = Production
\* the listing was read: data holds the tree of a remote run
Listed == Remote /\ ~IsNull(data)

Logged(fn, msg) == \E k \in 1..Len(log) : log[k].fn = fn /\ log[k].msg = msg

\* C1: in production mode with owner or repository missing (undefined or
\* empty) startup fails, and no HTTP request - tree listing or file fetch -
\* has been issued at any point.
C1_NoRequestWhenConfigMissing ==
    (processEnv.NODE_ENV = Some(Production)
       /\ (Missing(processEnv.GITHUB_OWNER) \/ Missing(processEnv.GITHUB_REPO)))
    => /\ net = <<>>
       /\ pc \in {"validateEnv", "failed"}
       /\ pc = "failed" => ~IsNull(error)
       /\ IsNull(files)

C1_Witness ==
    /\ processEnv.NODE_ENV = Some(Production)
    /\ processEnv.GITHUB_OWNER = Some(<<>>)
    /\ processEnv.GITHUB_REPO = Some(<<"acme">>)
    /\ pc = "failed"
    /\ ~IsNull(error)
    /\ net = <<>>

\* the listing response was received and was not successful
ListingFailed == ~IsNull(response) /\ response[1].status \notin 200..299

AllFourPresent(h) ==
    ~Missing(h.limit) /\ ~Missing(h.remaining) /\ ~Missing(h.reset)
    /\ ~Missing(h.used)

\* x-ratelimit-remaining is a number other than 0
NonzeroRemaining(h) ==
    ~Missing(h.remaining) /\ ParseInt(h.remaining[1]) \notin {NULL, Some(0)}

\* the general rule of C2: rate-limit variant iff a snapshot exists with
\* remaining = 0, else the generic variant with the response's status
C2_Rule ==
    ListingFailed =>
       LET snapshot == ParseRateLimitHeaders(response[1].headers)
           exhausted == ~IsNull(snapshot) /\ snapshot[1].remaining = Some(0)
       IN /\ ~IsNull(error)
          /\ exhausted <=> error[1].name = "GitHubRateLimitError"
          /\ ~exhausted =>
                /\ error[1].name = "GitHubApiError"
                /\ error[1].statusCode = Some(response[1].status)

\* C2 as stated: the general rule, and in particular every 403 with
\* x-ratelimit-remaining: 0 raises the rate-limit variant and every 403
\* with nonzero remaining raises the generic variant.
C2_Original ==
    /\ C2_Rule
    /\ (ListingFailed /\ response[1].status = 403) =>
          /\ response[1].headers.remaining = Some(<<"0">>)
                => error[1].name = "GitHubRateLimitError"
          /\ NonzeroRemaining(response[1].headers)
                => error[1].name = "GitHubApiError"

\* C2 amended: the general rule; a 403 that carries all four rate-limit
\* fields with x-ratelimit-remaining: 0 raises the rate-limit variant, and
\* a 403 with nonzero remaining raises the generic variant.
C2_RateLimitVariant ==
    /\ C2_Rule
    /\ (ListingFailed /\ response[1].status = 403) =>
          /\ (AllFourPresent(response[1].headers)
              /\ response[1].headers.remaining = Some(<<"0">>))
                => error[1].name = "GitHubRateLimitError"
          /\ NonzeroRemaining(response[1].headers)
                => error[1].name = "GitHubApiError"

C2_Witness ==
    /\ ListingFailed
    /\ response[1].status = 403
    /\ AllFourPresent(response[1].headers)
    /\ response[1].headers.remaining = Some(<<"0">>)
    /\ error[1].name = "GitHubRateLimitError"
    /\ pc = "failed"

\* the number of indexes of a sequence that satisfy a test
CountIf(sq, Test(_)) == Cardinality({i \in 1..Len(sq) : Test(sq[i])})

\* C3: with N blob entries under the content path and M blob entries
\* outside it in the listing, exactly N per-file fetches are attempted and
\* no outside entry is fetched, whatever the order of the listing.
C3_ExactlyFilesUnderContentPath ==
    Listed =>
       LET root == env[1].GITHUB_CONTENT_PATH
           UnderBlob(item) == item.type = "blob" /\ IsUnder(item.path, root)
       IN /\ Len(FileRequests) = CountIf(data[1], UnderBlob)
          /\ \A k \in 1..Len(FileRequests) : IsUnder(FileRequests[k].path, root)

\* a fetch that failed: a status that is not ok, or no response at all
FetchFailedTask(t) == t.fetch \in {"notok", "rejected"}
NotOkTask(t) == t.fetch = "notok"

\* C4 as stated: after a successful listing, when some per-file fetch has a
\* status that is not ok, getGitHubFiles returns normally and the list has
\* exactly (attempted - failed fetches) entries.
C4_Original ==
    /\ Listed => (IsNull(error) /\ pc \in {"awaitAll", "returned", "loaded"})
    /\ (Listed /\ pc = "returned" /\ \E i \in 1..Len(tasks) : NotOkTask(tasks[i])) =>
          Len(files[1]) = Len(tasks) - CountIf(tasks, FetchFailedTask)

Recognized(path) == ExtName(path) \in {EXT_MD, EXT_MDX, EXT_JSON}

\* the text of a fetched file does not parse for its extension
ParseFails(path, content) ==
    \/ ExtName(path) \in {EXT_MD, EXT_MDX} /\ content = C_badyaml
    \/ ExtName(path) = EXT_JSON /\ content # C_json

\* fetched, but dropped for its extension or rejected by the parser
DroppedAfterFetch(t) ==
    t.fetch = "ok" /\ (~Recognized(t.path) \/ ParseFails(t.path, t.content[1]))

\* C4 amended: after a successful listing getGitHubFiles returns normally
\* and the list has exactly (attempted - failed fetches - fetched files
\* dropped for an unrecognized extension or a parse error) entries.
C4_ResultCount ==
    /\ Listed => (IsNull(error) /\ pc \in {"awaitAll", "returned", "loaded"})
    /\ (Listed /\ pc = "returned") =>
          Len(files[1]) = Len(tasks) - CountIf(tasks, FetchFailedTask)
                                     - CountIf(tasks, DroppedAfterFetch)

C4_Witness ==
    /\ Listed
    /\ pc = "returned"
    /\ \E i \in 1..Len(tasks) : NotOkTask(tasks[i])
    /\ Len(files[1]) = 1
    /\ Len(tasks) = 2

\* the file's own fetch and parse succeeded and its extension is recognized
Qualifies(t) ==
    t.fetch = "ok" /\ Recognized(t.path) /\ ~ParseFails(t.path, t.content[1])

TypeOfExt(path) == IF ExtName(path) = EXT_JSON THEN "meta" ELSE "page"

\* C5: whatever subset of the concurrent per-file tasks rejects, no sibling
\* is cancelled (every task runs to its end before the return), the call
\* does not raise, and every file whose own fetch and parse succeeded with
\* a recognized extension is in the result.
C5_FailureIsolation ==
    /\ Listed => (IsNull(error) /\ pc \in {"awaitAll", "returned", "loaded"})
    /\ (Listed /\ pc = "returned") =>
          /\ \A i \in 1..Len(tasks) : tasks[i].fetch # "pending"
          /\ \A i \in 1..Len(tasks) :
                Qualifies(tasks[i]) =>
                   \E k \in 1..Len(files[1]) :
                      /\ files[1][k].type = TypeOfExt(tasks[i].path)
                      /\ files[1][k].path =
                            PathRelative(env[1].GITHUB_CONTENT_PATH, tasks[i].path)

C5_Witness ==
    /\ Listed
    /\ pc = "returned"
    /\ Len(tasks) = 2
    /\ \E i, j \in 1..2 :
          /\ tasks[i].st = "rejected"
          /\ settled[1] = i
          /\ Qualifies(tasks[j])
    /\ Len(files[1]) = 1

\* the run ended in one of the three fatal errors of remote acquisition
IsRateLimitFailure == error[1].name = "GitHubRateLimitError"
IsApiFailure == error[1].name = "GitHubApiError"
IsConfigFailure == error[1].message = <<"GitHub configuration is missing">>

LoggedByGetGitHubFiles(msg) == Logged("getGitHubFiles", msg)

C7_MissingHeaderIsNotFatal ==
    ~IsNull(response) =>
       LET h == response[1].headers
           ok == response[1].status \in 200..299
       IN /\ ~AllFourPresent(h) =>
                /\ Logged("logRateLimitInfo", MSG_NO_INFO)
                /\ ~Logged("logRateLimitInfo", MSG_INFO)
                /\ ~ok => (error[1].name = "GitHubApiError"
                           /\ IsNull(error[1].rateLimitInfo))
          /\ AllFourPresent(h) =>
                /\ Logged("logRateLimitInfo", MSG_INFO)
                /\ ~Logged("logRateLimitInfo", MSG_NO_INFO)
                /\ (~ok /\ h.remaining = Some(<<"0">>)) =>
                      /\ ~IsNull(error[1].rateLimitInfo)
                      /\ error[1].rateLimitInfo[1].remaining = Some(0)
          /\ ok => \/ pc = "awaitJson" /\ IsNull(error)
                   \/ pc \in {"catch", "failed"} /\ error = Some(JsonSyntaxError)
          /\ ~ok => (pc \in {"catch", "failed"}
                     /\ error[1].name \in {"GitHubApiError", "GitHubRateLimitError"})

C7_Witness ==
    /\ ~IsNull(response)
    /\ response[1].status = 200
    /\ response[1].headers.used = NULL
    /\ response[1].headers.limit # NULL
    /\ response[1].headers.reset # NULL
    /\ response[1].headers.remaining = Some(<<"0">>)
    /\ Logged("logRateLimitInfo", MSG_NO_INFO)
    /\ pc = "awaitJson"

\* what a successfully read and parsed file holds, by its text
FrontMatterOf(content) ==
    IF content = C_frontmatter THEN [title |-> "A", content |-> <<"hello">>]
    ELSE [content |-> content]

\* the virtual file the classification rule gives: md/mdx a page, json a
\* meta file, anything else none
RuleFile(relPath, content) ==
    IF ExtName(relPath) \in {EXT_MD, EXT_MDX}
    THEN Some([type |-> "page", path |-> relPath, data |-> FrontMatterOf(content)])
    ELSE IF ExtName(relPath) = EXT_JSON
    THEN Some([type |-> "meta", path |-> relPath,
               data |-> [pages |-> <<"a", "b">>]])
    ELSE NULL

RelativeToRoot(p) == SubSeq(p, Len(DefaultContentPath) + 2, Len(p))

\* C8 as stated: every successfully read file yields a page iff its
\* extension is .md or .mdx, a meta file iff it is .json, nothing otherwise.
C8_Original ==
    (Listed /\ pc = "returned") =>
       \A i \in 1..Len(tasks) :
          tasks[i].fetch = "ok" =>
             LET ext == ExtName(tasks[i].path)
                 v == tasks[i].value
             IN /\ (~IsNull(v) /\ v[1].type = "page") <=> ext \in {EXT_MD, EXT_MDX}
                /\ (~IsNull(v) /\ v[1].type = "meta") <=> ext = EXT_JSON
                /\ IsNull(v) <=> ext \notin {EXT_MD, EXT_MDX, EXT_JSON}

\* C8 amended: in both acquisition paths a successfully read file whose
\* text parses yields a page iff its extension is .md or .mdx (front-matter
\* merged with the body under content), a meta file iff it is .json (the
\* parsed JSON) and nothing otherwise; a text that does not parse raises in
\* both; local and remote treat the same (path, content) pair alike.
C8_ClassificationByExtension ==
    /\ (Listed /\ pc = "returned") =>
          \A i \in 1..Len(tasks) :
             tasks[i].fetch = "ok" =>
                LET t == tasks[i]
                    c == t.content[1]
                    local == LocalEntry(LocalKey(t.path), c)
                IN /\ ParseFails(t.path, c) <=> t.st = "rejected"
                   /\ (~ParseFails(t.path, c) /\ IsUnder(t.path, DefaultContentPath))
                         => t.value = RuleFile(RelativeToRoot(t.path), c)
                   /\ ~ParseFails(t.path, c) =>
                         (IsNull(t.value) <=> ~Recognized(t.path))
                   /\ local.threw <=> t.st = "rejected"
                   /\ local.file = t.value
    /\ (~IsNull(env) /\ env[1].NODE_ENV = Development /\ ~IsNull(data)
        /\ pc \in {"returned", "failed"}) =>
          LET entries == data[1]
              Rel(k) == RelativeToRoot(Tail(entries[k][1]))
              Fails(k) == ParseFails(entries[k][1], entries[k][2])
              remote == [k \in 1..Len(entries) |->
                           RemoteEntry(DefaultContentPath, Tail(entries[k][1]),
                                       entries[k][2])]
              Kept(o) == ~IsNull(o.file)
              kept == SelectSeq(remote, Kept)
          IN /\ (\E k \in 1..Len(entries) : Fails(k)) <=> pc = "failed"
             /\ pc = "returned" =>
                   /\ files[1] = [k \in 1..Len(kept) |-> kept[k].file[1]]
                   /\ \A k \in 1..Len(entries) :
                         remote[k].file = RuleFile(Rel(k), entries[k][2])

C8_Witness ==
    /\ Listed
    /\ pc = "returned"
    /\ Len(files[1]) = 2
    /\ files[1][1].type = "page"
    /\ files[1][1].data = [title |-> "A", content |-> <<"hello">>]
    /\ files[1][2].type = "meta"
    /\ \E i \in 1..Len(tasks) : tasks[i].path = P_md

\* C9: no per-file request is issued before the listing response has been
\* received and found successful; after a failed listing none is issued.
C9_ListingBeforeFiles ==
    /\ \A j \in 1..Len(net) :
          IsFileRequest(net[j]) =>
             \E k \in 1..(j - 1) : IsTreeResponse(net[k]) /\ net[k].status = 200
    /\ (\E k \in 1..Len(net) : IsTreeResponse(net[k]) /\ net[k].status # 200)
          => Len(FileRequests) = 0

C9_Witness ==
    /\ Len(FileRequests) = 2
    /\ IsTreeResponse(net[2])
    /\ pc = "awaitAll"

\* the values of the fulfilled, non-null tasks from index i on, in index
\* order
RECURSIVE SurvivorsFrom(_)
SurvivorsFrom(i) ==
    IF i > Len(tasks) THEN <<>>
    ELSE (IF tasks[i].st = "fulfilled" /\ ~IsNull(tasks[i].value)
          THEN <<tasks[i].value[1]>> ELSE <<>>) \o SurvivorsFrom(i + 1)

\* C10: the returned list is in the order of the surviving entries of the
\* listing, whatever the order in which the per-file fetches complete.
C10_ListingOrder ==
    (Listed /\ pc = "returned") =>
       LET Kept(item) == item.type = "blob"
                         /\ StartsWith(item.path, env[1].GITHUB_CONTENT_PATH)
           kept == SelectSeq(data[1], Kept)
       IN /\ [i \in 1..Len(tasks) |-> tasks[i].path]
               = [i \in 1..Len(kept) |-> kept[i].path]
          /\ files[1] = SurvivorsFrom(1)

C10_Witness ==
    /\ Listed
    /\ pc = "returned"
    /\ settled = <<2, 1>>
    /\ Len(files[1]) = 2
    /\ files[1][1].path # files[1][2].path
    /\ files[1][1].path = PathRelative(env[1].GITHUB_CONTENT_PATH, tasks[1].path)

====
